---- MODULE Spec2Model ----
(***************************************************************************)
(* ChronoLens: the session state machine of App.tsx, the batch pipeline   *)
(* of handleStartJourney, the remote calls of services/geminiService.ts   *)
(* and the gating state of MaskEditor.tsx / EraSelector.tsx.              *)
(*                                                                         *)
(* One action is one run-to-completion JavaScript step: a click handler   *)
(* up to its first await (the remote request is issued inside that step), *)
(* or the continuation of an async handler from the moment its awaited    *)
(* remote call resolves up to the next await or the end of the handler.   *)
(* A React setState call is modelled as taking effect in the step that    *)
(* calls it.  A handler is enabled only in the phase whose render         *)
(* function mounts the control that invokes it.                           *)
(*                                                                         *)
(* Spec follows the session.  SpecMask follows, besides, the pixels of    *)
(* the mask canvas, and SpecConfig the configuration, its store and the   *)
(* text of the transform request built from it.                           *)
(***************************************************************************)
EXTENDS Integers, Sequences, FiniteSets, TLC

\* ---------------------------------------------------------------- bounds
\* Largest number of eras the user toggles on before starting a journey.
MaxBatch == 2

\* Number of positions of the mask canvas whose pixels are followed.
CanvasPixels == 2

\* Largest number of drawing steps between two clears of the mask canvas.
MaxDraws == 2

\* ------------------------------------------------------------ value sets
\* types.ts AppState
AppState == {"HOME", "CAPTURE", "PREVIEW", "PROCESSING", "RESTORE", "MASKING", "RESULT"}

\* types.ts Era (three of the eight members)
Era == {"Victorian Era", "Viking Age", "Cyberpunk Future"}

\* JavaScript null
Null == "null"

\* Data URLs the capture collaborator hands to onCapture.  FileReader fires
\* onloadend after a failed read too, with result null.
CaptureInputs == {"imgA", Null}

\* Values of FILTER_OPTIONS the user can pick in the result view.
FilterValues == {"none", "grayscale(100%)"}

\* Texts the user can type into the custom prompt box / the mask prompt box.
TypedPrompts == {"", "make me a pirate"}
MaskPrompts == {"", " ", "a hat"}

\* types.ts ImageStyle (two of the ten members) and Resolution
ImageStyle == {"Photorealistic", "Cinematic"}
Resolution == {"Standard", "High Quality", "4K Ultra"}

\* The range of the detail slider and the detail level of a first run.
MaxDetail == 100
DefaultDetail == 50

\* What localStorage.getItem can return at start-up for the three keys: null
\* for a key never written, a value a previous run wrote, or any other text.
StoredStyles == {Null, "Cinematic", "bogus"}
StoredResolutions == {Null, "High Quality", "bogus"}
StoredDetails == {Null, "0", "30", "abc"}
PriorStores ==
    [style : StoredStyles, resolution : StoredResolutions,
     detail : StoredDetails]
EmptyStore == [style |-> Null, resolution |-> Null, detail |-> Null]

\* The opacity (of 255) a drawing step deposits on a pixel it covers: the
\* 0.5 of the stroke colour where the brush covers the pixel, next to
\* nothing where the anti-aliased edge of the brush touches it.
InkAlpha == {1, 128}

\* Text payloads of an analysis / prompt response (response.text); "" stands
\* for a response without text.
ResponseTexts == {"", "some text"}

\* Responses of ai.models.generateContent on the image model: the call
\* rejects ("error"), or resolves without candidate parts ("noparts"), or
\* resolves with a list of parts.  A part is the base64 payload of its
\* inlineData, "" for a part that has none (a text part).
ImageResponses ==
    {[kind |-> "error", parts |-> <<>>], [kind |-> "noparts", parts |-> <<>>]}
      \cup {[kind |-> "parts", parts |-> p] :
              p \in {<<>>, <<"">>, <<"d1">>, <<"", "d2">>}}

\* Responses of ai.models.generateContent on the text model.
TextResponses ==
    {[kind |-> "error", text |-> ""]}
      \cup {[kind |-> "text", text |-> t] : t \in ResponseTexts}

\* ------------------------------------------------------- pure operators
\* JavaScript  a || b  on strings: the empty string and null are falsy.
OrElse(a, b) == IF a = "" \/ a = Null THEN b ELSE a

\* prompt.trim() is falsy
IsBlank(s) == s \in {"", " "}

\* The settlement of a promise: fulfilled with a value, or rejected with an
\* Error whose message is value.
Ok(v) == [ok |-> TRUE, value |-> v]
Err(m) == [ok |-> FALSE, value |-> m]

RECURSIVE FirstImage(_)
\* for (const part of parts) if (part.inlineData && part.inlineData.data) return ...
FirstImage(parts) ==
    IF parts = <<>> THEN ""
    ELSE IF Head(parts) # "" THEN Head(parts)
    ELSE FirstImage(Tail(parts))

\* Mutant of processImage: the throw after the scan of the parts is missing,
\* a response with parts and no image yields the empty image.
processImageEmptySuccess(resp) ==
    IF resp.kind = "parts"
    THEN Ok(FirstImage(resp.parts))
    ELSE Err("Failed to generate image. Please try again.")

\* geminiService.ts processImage, as its awaiting caller sees it.  The
\* "No image generated." error is thrown inside the try block and replaced
\* by the catch block's error.
processImage(resp) ==
    IF resp.kind = "parts" /\ FirstImage(resp.parts) # ""
    THEN Ok(FirstImage(resp.parts))
    ELSE Err("Failed to generate image. Please try again.")

\* geminiService.ts timeTravel and customEdit both end in processImage.
timeTravel(resp) == processImage(resp)
customEdit(resp) == processImage(resp)

\* geminiService.ts magicEdit: the same scan, with its own error text.
magicEdit(resp) ==
    IF resp.kind = "parts" /\ FirstImage(resp.parts) # ""
    THEN Ok(FirstImage(resp.parts))
    ELSE Err("Failed to edit image. Please try again.")

\* Mutant of analyzeImage: the catch block returns the fallback text instead
\* of throwing.
analyzeImageSwallows(resp) ==
    IF resp.kind = "error"
    THEN Ok("No analysis available.")
    ELSE Ok(OrElse(resp.text, "No analysis available."))

\* geminiService.ts analyzeImage
analyzeImage(resp) ==
    IF resp.kind = "error"
    THEN Err("Failed to analyze image. Please try again.")
    ELSE Ok(OrElse(resp.text, "No analysis available."))

\* Mutant of generateCreativePrompt: the catch block returns the empty text
\* instead of throwing.
generateCreativePromptSwallows(resp) ==
    IF resp.kind = "error" THEN Ok("") ELSE Ok(resp.text)

\* geminiService.ts generateCreativePrompt
generateCreativePrompt(resp) ==
    IF resp.kind = "error"
    THEN Err("Failed to generate prompt.")
    ELSE Ok(OrElse(resp.text, ""))

\* ---------------------------------------------------------------- state
VARIABLES
    state,              \* App.tsx useState<AppState>: the phase
    capturedImage,      \* sourceImage, Null when absent
    generatedResults,   \* results: sequence of [era, imageUrl]
    activeIndex,        \* activeResultIndex (0-based, as in the source)
    analysisText,       \* analysis annotation, Null when absent
    error,              \* lastError, Null when absent
    customPrompt,       \* the instruction text of the preview screen
    isGeneratingPrompt, \* in-progress flag of the Magic Prompt button
    activeFilter,       \* colour filter of the result view
    selectedEras,       \* EraSelector.tsx local state, in selection order
    isDrawing,          \* MaskEditor.tsx local state
    hasDrawn,           \* MaskEditor.tsx local state: the submission gate
    prompt,             \* MaskEditor.tsx local state: the mask instruction
    pc,                 \* which async handler is suspended at an await
    runEras,            \* handleStartJourney's argument eras
    runResults,         \* handleStartJourney's local array results
    pending,            \* remote calls of the run that have not resolved
    promptPending,      \* a generateCreativePrompt call has not resolved
    issued,             \* items of the run in flight requested so far
    settled,            \* the remote settlement handled by the last step
    canvas,             \* MaskEditor canvas: ink opacity at each position
    pen,                \* last point of the context's current path, 0: none
    loaded,             \* the img.onload of the mounted MaskEditor has run
    strokes,            \* drawing steps since the last clear
    inked,              \* positions that took ink since the canvas was blank
    wiped,              \* positions whose ink a clear has removed
    handed,             \* the confirm click of the last step and its calls
    selectedStyle,      \* App.tsx configuration state
    selectedResolution, \* App.tsx configuration state
    detailLevel,        \* App.tsx configuration state
    storage,            \* localStorage: the three chronolens_* keys
    request             \* prompt text of the transform request in flight

vars == <<state, capturedImage, generatedResults, activeIndex, analysisText,
          error, customPrompt, isGeneratingPrompt, activeFilter, selectedEras,
          isDrawing, hasDrawn, prompt, pc, runEras, runResults, pending,
          promptPending, issued, settled, canvas, pen, loaded, strokes,
          inked, wiped, handed, selectedStyle, selectedResolution,
          detailLevel, storage, request>>

session == <<capturedImage, generatedResults, activeIndex, analysisText,
             error, customPrompt, activeFilter>>
maskEditor == <<isDrawing, hasDrawn, prompt>>
pixels == <<canvas, pen, loaded, strokes, inked, wiped>>
configuration == <<selectedStyle, selectedResolution, detailLevel, storage,
                   request>>
run == <<pc, runEras, runResults, pending, issued>>
promptGen == <<isGeneratingPrompt, promptPending>>

Range(seq) == {seq[i] : i \in 1..Len(seq)}

RECURSIVE SetToSortedSeq(_)
\* The members of a finite set of integers in increasing order.
SetToSortedSeq(S) ==
    IF S = {} THEN <<>>
    ELSE LET m == CHOOSE x \in S : \A y \in S : x <= y
         IN <<m>> \o SetToSortedSeq(S \ {m})

Request(fn, items) == {[fn |-> fn, item |-> i] : i \in items}

\* settled records what the step just taken was.  For the continuation of an
\* async handler: the suspended handler (by), the service function awaited
\* (fn), the item (0 for a call that is no transform), the eras of the run
\* (empty for a run that is no journey) and their number, whether the promise
\* was fulfilled (ok) and what the remote answered (saw).  For a capture: the
\* handler (act), its argument (arg) and whether the session still held an
\* error or an instruction from an earlier use (stale).  Every other user
\* action sets it to NoSettlement.
NoSettlement ==
    [by |-> "none", fn |-> "none", item |-> 0, n |-> 0, eras |-> <<>>,
     ok |-> TRUE, saw |-> "none", act |-> "none", arg |-> "none",
     stale |-> FALSE]
Settlement(by, fn, item, eras, ok) ==
    [NoSettlement EXCEPT !.by = by, !.fn = fn, !.item = item,
                         !.n = Len(eras), !.eras = eras, !.ok = ok]

\* What the remote answered, read off the response itself.
Saw(resp) ==
    IF resp.kind = "error" THEN "error"
    ELSE IF resp.kind = "noparts" THEN "noparts"
    ELSE IF resp.kind = "parts"
         THEN IF \E i \in 1..Len(resp.parts) : resp.parts[i] # ""
              THEN "image" ELSE "noimage"
         ELSE IF resp.text = "" THEN "notext" ELSE "text"

\* A settlement together with the answer it came from.
Answered(s, resp) == [s EXCEPT !.saw = Saw(resp)]

\* The record of a user action that a claim follows.
Acted(act, arg, stale) ==
    [NoSettlement EXCEPT !.act = act, !.arg = arg, !.stale = stale]

UserAction == settled' = NoSettlement

TypeOK ==
    /\ state \in AppState
    /\ capturedImage \in CaptureInputs
    /\ activeIndex \in Nat
    /\ isGeneratingPrompt \in BOOLEAN
    /\ activeFilter \in FilterValues
    /\ Range(selectedEras) \subseteq Era
    /\ isDrawing \in BOOLEAN /\ hasDrawn \in BOOLEAN
    /\ prompt \in MaskPrompts
    /\ pc \in {"idle", "analyze", "restoreAnalyze", "restoreEdit",
               "journey", "custom", "magic"}
    /\ promptPending \in BOOLEAN
    /\ canvas \in [1..CanvasPixels -> 0..255]
    /\ pen \in 0..CanvasPixels
    /\ loaded \in BOOLEAN
    /\ strokes \in 0..MaxDraws
    /\ inked \subseteq 1..CanvasPixels /\ wiped \subseteq 1..CanvasPixels
    /\ handed.clicked \in BOOLEAN /\ Len(handed.calls) <= 1
    /\ selectedStyle \in ImageStyle \cup StoredStyles
    /\ selectedResolution \in Resolution \cup StoredResolutions
    /\ detailLevel \in 0..MaxDetail
    /\ storage.detail = ToString(detailLevel)

\* ----------------------------------------------------- request builder
\* getStylePrompt: the switch over ImageStyle, REALISTIC sharing the default.
getStylePrompt(style) ==
    IF style = "Cinematic"
    THEN "Cinematic lighting, dramatic atmosphere, movie still quality, color graded, widescreen aspect ratio."
    ELSE "Photorealistic, natural lighting, sharp focus, true to life colors."

\* Mutant of getResolutionPrompt: the soft clause is chosen up to 30 included.
getResolutionPromptSoftAt30(resolution, level) ==
    LET base ==
            IF resolution = "High Quality"
            THEN "High quality, detailed, sharp focus."
            ELSE IF resolution = "4K Ultra"
                 THEN "4K resolution, ultra sharp, highly detailed, masterful quality."
                 ELSE "Standard resolution."
        detailDesc ==
            IF level <= 30
            THEN "soft edges, smooth textures, dreamy quality"
            ELSE IF level > 70
                 THEN "intricate micro-details, hyper-realistic textures, extremely sharp edges, high fidelity"
                 ELSE "balanced details"
    IN <<base, " Ensure the image has ", detailDesc, ".">>

\* getResolutionPrompt: `${base} Ensure the image has ${detailDesc}.`, the
\* pieces of the template in order.
getResolutionPrompt(resolution, level) ==
    LET base ==
            IF resolution = "High Quality"
            THEN "High quality, detailed, sharp focus."
            ELSE IF resolution = "4K Ultra"
                 THEN "4K resolution, ultra sharp, highly detailed, masterful quality."
                 ELSE "Standard resolution."
        detailDesc ==
            IF level < 30
            THEN "soft edges, smooth textures, dreamy quality"
            ELSE IF level > 70
                 THEN "intricate micro-details, hyper-realistic textures, extremely sharp edges, high fidelity"
                 ELSE "balanced details"
    IN <<base, " Ensure the image has ", detailDesc, ".">>

\* customEdit: `${customPrompt}. ${stylePrompt} ${resolutionPrompt}`
fullPrompt(text, style, resolution, level) ==
    <<text, ". ", getStylePrompt(style), " ">>
        \o getResolutionPrompt(resolution, level)

\* No transform request is in flight.
NoRequest == <<>>

\* ------------------------------------------------------- configuration
\* String(detailLevel)
String(n) == ToString(n)

\* Number(text): 0 for null and for the empty text, the number a decimal
\* numeral denotes, NaN for any other text.
Number(text) ==
    IF text = Null \/ text = ""
    THEN [nan |-> FALSE, value |-> 0]
    ELSE IF \E n \in 0..MaxDetail : ToString(n) = text
         THEN [nan |-> FALSE,
               value |-> CHOOSE n \in 0..MaxDetail : ToString(n) = text]
         ELSE [nan |-> TRUE, value |-> 0]

\* Number(localStorage.getItem(DETAIL)) || 50: NaN and 0 are falsy.
InitialDetail(text) ==
    LET n == Number(text)
    IN IF n.nan \/ n.value = 0 THEN DefaultDetail ELSE n.value

\* The save-settings effect: the three setItem calls.
Saved(style, resolution, detail) ==
    [style |-> style, resolution |-> resolution, detail |-> String(detail)]

\* The configuration after App has mounted over the store `store`: the lazy
\* initialisers of the three useState calls, then the first run of the
\* save-settings effect.
Mounted(store) ==
    /\ selectedStyle = OrElse(store.style, "Photorealistic")
    /\ selectedResolution = OrElse(store.resolution, "Standard")
    /\ detailLevel = InitialDetail(store.detail)
    /\ storage = Saved(OrElse(store.style, "Photorealistic"),
                       OrElse(store.resolution, "Standard"),
                       InitialDetail(store.detail))
    /\ request = NoRequest

\* ---------------------------------------------------------- mask canvas
\* A pixel of an ImageData buffer.
Black == [r |-> 0, g |-> 0, b |-> 0, a |-> 255]
White == [r |-> 255, g |-> 255, b |-> 255, a |-> 255]

\* A canvas nothing has been drawn on.
Blank == [i \in 1..CanvasPixels |-> 0]

\* source-over of ink of opacity sa onto a pixel whose ink has opacity a.
Over(sa, a) == sa + (a * (255 - sa) + 127) \div 255

\* The pixel of the visual canvas where the ink has opacity alpha: the stroke
\* colour rgba(255, 0, 100, .), premultiplied.
StrokeLayer(alpha) ==
    [r |-> (255 * alpha + 127) \div 255,
     g |-> 0,
     b |-> (100 * alpha + 127) \div 255,
     a |-> alpha]

\* maskCtx.drawImage(canvas, 0, 0) with source-over: one pixel of the visual
\* canvas composited onto one pixel of the mask canvas.
DrawImage(src, dst) ==
    [r |-> src.r + (dst.r * (255 - src.a) + 127) \div 255,
     g |-> src.g + (dst.g * (255 - src.a) + 127) \div 255,
     b |-> src.b + (dst.b * (255 - src.a) + 127) \div 255,
     a |-> src.a + (dst.a * (255 - src.a) + 127) \div 255]

\* Mutant of Threshold: the test reads the blue channel, data[i + 2].
ThresholdOnBlue(px) == IF px.b > 0 THEN White ELSE px

\* Mutant of Threshold: the test reads the alpha channel, data[i + 3], "set
\* any non-transparent pixel to white".
ThresholdOnAlpha(px) == IF px.a > 0 THEN White ELSE px

\* The body of the loop over the buffer: if (data[i] > 0) the four channels
\* of the pixel are set to 255.
Threshold(px) == IF px.r > 0 THEN White ELSE px

\* The loop over the ImageData buffer.
Binarize(buf) == [i \in DOMAIN buf |-> Threshold(buf[i])]

\* handleSubmit's mask: fill black, draw the visual canvas, binarize.  The
\* PNG data URL of the result is lossless and is modelled by the buffer.
MaskOf(c) ==
    Binarize([i \in DOMAIN c |-> DrawImage(StrokeLayer(c[i]), Black)])

\* No confirm click in the step just taken / a click and its onConfirm calls.
NoClick == [clicked |-> FALSE, calls |-> <<>>]
Click(calls) == [clicked |-> TRUE, calls |-> calls]

\* App.tsx lines 113-141, EraSelector.tsx line 69, MaskEditor.tsx lines 14-17:
\* the state after App has mounted over the store `store`.
Constructed(store) ==
    /\ state = "HOME"
    /\ capturedImage = Null
    /\ generatedResults = <<>>
    /\ activeIndex = 0
    /\ analysisText = Null
    /\ error = Null
    /\ customPrompt = ""
    /\ isGeneratingPrompt = FALSE
    /\ activeFilter = "none"
    /\ selectedEras = <<>>
    /\ isDrawing = FALSE
    /\ hasDrawn = FALSE
    /\ prompt = ""
    /\ pc = "idle"
    /\ runEras = <<>>
    /\ runResults = <<>>
    /\ pending = {}
    /\ promptPending = FALSE
    /\ issued = <<>>
    /\ settled = NoSettlement
    /\ canvas = Blank
    /\ pen = 0
    /\ loaded = FALSE
    /\ strokes = 0
    /\ inked = {}
    /\ wiped = {}
    /\ handed = NoClick
    /\ Mounted(store)

\* The first run: nothing has been stored yet.
Init == Constructed(EmptyStore)

\* A component's local state exists only while the component is mounted:
\* EraSelector under renderPreview, MaskEditor under renderMasking.
EraSelectorUnmounted == selectedEras' = <<>>
MaskEditorFresh == isDrawing' = FALSE /\ hasDrawn' = FALSE /\ prompt' = ""

\* An async handler has returned: its locals are gone.
EndRun ==
    /\ pc' = "idle"
    /\ runEras' = <<>>
    /\ runResults' = <<>>
    /\ pending' = {}
    /\ issued' = <<>>

\* ------------------------------------------------- session state machine
startApp ==
    /\ UserAction
    /\ state = "HOME"
    /\ state' = "CAPTURE"
    /\ UNCHANGED <<session, selectedEras, maskEditor, run, promptGen>>

\* handleCapture without its setError(null).
handleCaptureKeepsError(imageSrc) ==
    /\ settled' = Acted("handleCapture", imageSrc,
                        error # Null \/ customPrompt # "")
    /\ state = "CAPTURE"
    /\ capturedImage' = imageSrc
    /\ state' = "PREVIEW"
    /\ analysisText' = Null
    /\ generatedResults' = <<>>
    /\ activeFilter' = "none"
    /\ customPrompt' = ""
    /\ UNCHANGED <<error, activeIndex, selectedEras, maskEditor, run,
                   promptGen>>

handleCapture(imageSrc) ==
    /\ settled' = Acted("handleCapture", imageSrc,
                        error # Null \/ customPrompt # "")
    /\ state = "CAPTURE"
    /\ capturedImage' = imageSrc
    /\ state' = "PREVIEW"
    /\ error' = Null
    /\ analysisText' = Null
    /\ generatedResults' = <<>>
    /\ activeFilter' = "none"
    /\ customPrompt' = ""
    /\ UNCHANGED <<activeIndex, selectedEras, maskEditor, run, promptGen>>

\* Camera onCancel
cancelCapture ==
    /\ UserAction
    /\ state = "CAPTURE"
    /\ state' = "HOME"
    /\ UNCHANGED <<session, selectedEras, maskEditor, run, promptGen>>

\* Mutant of reset: the control is mounted in every phase.
resetInAnyPhase ==
    /\ UserAction
    /\ capturedImage' = Null
    /\ generatedResults' = <<>>
    /\ analysisText' = Null
    /\ state' = "HOME"
    /\ activeFilter' = "none"
    /\ customPrompt' = ""
    /\ EraSelectorUnmounted
    /\ UNCHANGED <<activeIndex, error, maskEditor, run, promptGen>>

\* "Start Over" of renderPreview, "New Photo" of renderResult
reset ==
    /\ UserAction
    /\ state \in {"PREVIEW", "RESULT"}
    /\ capturedImage' = Null
    /\ generatedResults' = <<>>
    /\ analysisText' = Null
    /\ state' = "HOME"
    /\ activeFilter' = "none"
    /\ customPrompt' = ""
    /\ EraSelectorUnmounted
    /\ UNCHANGED <<activeIndex, error, maskEditor, run, promptGen>>

\* Mutant of backToPreview: leaving the result view drops the results.
backToPreviewClearsResults ==
    /\ UserAction
    /\ state = "RESULT"
    /\ state' = "PREVIEW"
    /\ generatedResults' = <<>>
    /\ activeIndex' = 0
    /\ UNCHANGED <<capturedImage, analysisText, error, customPrompt,
                   activeFilter, selectedEras, maskEditor, run, promptGen>>

\* "Adjust Settings" of renderResult
backToPreview ==
    /\ UserAction
    /\ state = "RESULT"
    /\ state' = "PREVIEW"
    /\ UNCHANGED <<session, selectedEras, maskEditor, run, promptGen>>

\* Filter buttons of renderResult; renderResult returns early without them
\* when there is no active result.
setActiveFilter(f) ==
    /\ UserAction
    /\ state = "RESULT"
    /\ activeIndex < Len(generatedResults)
    /\ activeFilter' = f
    /\ UNCHANGED <<state, capturedImage, generatedResults, activeIndex,
                   analysisText, error, customPrompt, selectedEras,
                   maskEditor, run, promptGen>>

\* Gallery strip of renderResult, shown when there is more than one result.
setActiveIndex(idx) ==
    /\ UserAction
    /\ state = "RESULT"
    /\ activeIndex < Len(generatedResults)
    /\ Len(generatedResults) > 1
    /\ idx \in 0..(Len(generatedResults) - 1)
    /\ activeIndex' = idx
    /\ UNCHANGED <<state, capturedImage, generatedResults, analysisText,
                   error, customPrompt, activeFilter, selectedEras,
                   maskEditor, run, promptGen>>

\* EraSelector.tsx toggleEra
toggleEra(era) ==
    /\ UserAction
    /\ state = "PREVIEW"
    /\ IF era \in Range(selectedEras)
       THEN selectedEras' = SelectSeq(selectedEras, LAMBDA e : e # era)
       ELSE /\ Len(selectedEras) < MaxBatch
            /\ selectedEras' = Append(selectedEras, era)
    /\ UNCHANGED <<state, session, maskEditor, run, promptGen>>

\* onCustomPromptChange
setCustomPrompt(text) ==
    /\ UserAction
    /\ state = "PREVIEW"
    /\ customPrompt' = text
    /\ UNCHANGED <<state, capturedImage, generatedResults, activeIndex,
                   analysisText, error, activeFilter, selectedEras,
                   maskEditor, run, promptGen>>

\* ------------------------------------------------------------- analyze
handleAnalyze ==
    /\ UserAction
    /\ state = "PREVIEW"
    /\ capturedImage # Null
    /\ state' = "PROCESSING"
    /\ error' = Null
    /\ pc' = "analyze"
    /\ pending' = Request("analyzeImage", {0})
    /\ EraSelectorUnmounted
    /\ UNCHANGED <<capturedImage, generatedResults, activeIndex, analysisText,
                   customPrompt, activeFilter, maskEditor, runEras,
                   runResults, issued, promptGen>>

analyzeResolved(resp) ==
    /\ settled' = Answered(Settlement("handleAnalyze", "analyzeImage",
                                      0, <<>>, analyzeImage(resp).ok),
                          resp)
    /\ pc = "analyze"
    /\ pending = Request("analyzeImage", {0})
    /\ LET r == analyzeImage(resp)
       IN IF r.ok
          THEN /\ analysisText' = r.value
               /\ error' = error
          ELSE /\ error' = OrElse(r.value, "Analysis failed")
               /\ analysisText' = analysisText
    /\ state' = "PREVIEW"
    /\ EndRun
    /\ UNCHANGED <<capturedImage, generatedResults, activeIndex, customPrompt,
                   activeFilter, selectedEras, maskEditor, promptGen>>

\* ------------------------------------------------------- magic prompt
handleGeneratePrompt ==
    /\ UserAction
    /\ state = "PREVIEW"
    /\ ~isGeneratingPrompt
    /\ capturedImage # Null
    /\ isGeneratingPrompt' = TRUE
    /\ promptPending' = TRUE
    /\ UNCHANGED <<state, session, selectedEras, maskEditor, run>>

promptResolved(resp) ==
    /\ settled' = Answered(Settlement("handleGeneratePrompt",
                                      "generateCreativePrompt", 0, <<>>,
                                      generateCreativePrompt(resp).ok),
                          resp)
    /\ promptPending
    /\ LET r == generateCreativePrompt(resp)
       IN customPrompt' = IF r.ok THEN r.value ELSE customPrompt
    /\ isGeneratingPrompt' = FALSE
    /\ promptPending' = FALSE
    /\ UNCHANGED <<state, capturedImage, generatedResults, activeIndex,
                   analysisText, error, activeFilter, selectedEras,
                   maskEditor, run>>

\* ------------------------------------------------------------- restore
handleRestore ==
    /\ UserAction
    /\ state = "PREVIEW"
    /\ capturedImage # Null
    /\ state' = "RESTORE"
    /\ error' = Null
    /\ generatedResults' = <<>>
    /\ activeIndex' = 0
    /\ activeFilter' = "none"
    /\ pc' = "restoreAnalyze"
    /\ pending' = Request("analyzeImage", {0})
    /\ EraSelectorUnmounted
    /\ UNCHANGED <<capturedImage, analysisText, customPrompt, maskEditor,
                   runEras, runResults, issued, promptGen>>

\* Mutant of restoreAnalyzed: the damage report is optional, the transform is
\* requested whatever the analysis did.
restoreAnalyzedAlwaysEdits(resp) ==
    /\ settled' = Answered(Settlement("handleRestore", "analyzeImage",
                                      0, <<>>, analyzeImage(resp).ok),
                          resp)
    /\ pc = "restoreAnalyze"
    /\ pending = Request("analyzeImage", {0})
    /\ pc' = "restoreEdit"
    /\ pending' = Request("customEdit", {1})
    /\ issued' = Append(issued, 1)
    /\ UNCHANGED <<state, error, runEras, runResults>>
    /\ UNCHANGED <<capturedImage, generatedResults, activeIndex, analysisText,
                   customPrompt, activeFilter, selectedEras, maskEditor,
                   promptGen>>

\* The damage analysis has resolved: request the transform, or catch.
restoreAnalyzed(resp) ==
    /\ settled' = Answered(Settlement("handleRestore", "analyzeImage",
                                      0, <<>>, analyzeImage(resp).ok),
                          resp)
    /\ pc = "restoreAnalyze"
    /\ pending = Request("analyzeImage", {0})
    /\ LET r == analyzeImage(resp)
       IN IF r.ok
          THEN /\ pc' = "restoreEdit"
               /\ pending' = Request("customEdit", {1})
               /\ issued' = Append(issued, 1)
               /\ UNCHANGED <<state, error, runEras, runResults>>
          ELSE /\ error' = OrElse(r.value, "Restoration failed.")
               /\ state' = "PREVIEW"
               /\ EndRun
    /\ UNCHANGED <<capturedImage, generatedResults, activeIndex, analysisText,
                   customPrompt, activeFilter, selectedEras, maskEditor,
                   promptGen>>

restoreEdited(resp) ==
    /\ settled' = Answered(Settlement("handleRestore", "customEdit",
                                      1, <<>>, customEdit(resp).ok),
                          resp)
    /\ pc = "restoreEdit"
    /\ pending = Request("customEdit", {1})
    /\ LET r == customEdit(resp)
       IN IF r.ok
          THEN /\ generatedResults' =
                     <<[era |-> "Restored Photo", imageUrl |-> r.value]>>
               /\ state' = "RESULT"
               /\ error' = error
          ELSE /\ error' = OrElse(r.value, "Restoration failed.")
               /\ state' = "PREVIEW"
               /\ generatedResults' = generatedResults
    /\ EndRun
    /\ UNCHANGED <<capturedImage, activeIndex, analysisText, customPrompt,
                   activeFilter, selectedEras, maskEditor, promptGen>>

\* -------------------------------------------------------- batch pipeline
\* Mutant of NextItems: every item is requested on entry (Promise.all style).
NextItemsAllAtOnce(eras, i) == IF i = 0 THEN 1..Len(eras) ELSE {}

\* for (const era of eras): the items requested once item i has succeeded
\* (i = 0: on entry to the loop).
NextItems(eras, i) == IF i < Len(eras) THEN {i + 1} ELSE {}

\* Mutant of AfterFailure: the catch sits inside the loop, which goes on.
AfterFailureContinue(eras, i) == IF i < Len(eras) THEN {i + 1} ELSE {}

\* Mutant of AfterFailure: the failed item is requested again.
AfterFailureRetry(eras, i) == {i}

\* A rejected await leaves the for loop through the catch block: the items
\* requested once item i has failed.
AfterFailure(eras, i) == {}

\* Mutant of PushResult: results.unshift(...), newest first.
PushResultFront(results, era, imageUrl) ==
    <<[era |-> era, imageUrl |-> imageUrl]>> \o results

\* results.push({ era: era, imageUrl })
PushResult(results, era, imageUrl) ==
    Append(results, [era |-> era, imageUrl |-> imageUrl])

\* Mutant of Snapshot: the copy is taken before the push of this item.
SnapshotBeforePush(results) == SubSeq(results, 1, Len(results) - 1)

\* setGeneratedResults([...results]): the value stored
Snapshot(results) == results

\* Mutant of CatchState: the catch block always shows the result view.
CatchStateAlwaysResult(results) == "RESULT"

\* catch block: if (results.length > 0) RESULT else PREVIEW
CatchState(results) == IF Len(results) > 0 THEN "RESULT" ELSE "PREVIEW"

\* Mutant of CatchError: the catch block forgets the error.
CatchErrorDropped(message) == Null

\* catch block: setError(e.message || "Failed during time travel.")
CatchError(message) == OrElse(message, "Failed during time travel.")

\* Mutant of handleStartJourney: the run starts without setActiveIndex(0).
handleStartJourneyKeepsIndex ==
    /\ UserAction
    /\ state = "PREVIEW"
    /\ Len(selectedEras) > 0
    /\ capturedImage # Null
    /\ state' = "PROCESSING"
    /\ error' = Null
    /\ generatedResults' = <<>>
    /\ activeIndex' = activeIndex
    /\ activeFilter' = "none"
    /\ pc' = "journey"
    /\ runEras' = selectedEras
    /\ runResults' = <<>>
    /\ pending' = Request("timeTravel", NextItems(selectedEras, 0))
    /\ issued' = SetToSortedSeq(NextItems(selectedEras, 0))
    /\ EraSelectorUnmounted
    /\ UNCHANGED <<capturedImage, analysisText, customPrompt, maskEditor,
                   promptGen>>

\* onStartJourney(selectedEras), rendered when selectedEras.length > 0
handleStartJourney ==
    /\ UserAction
    /\ state = "PREVIEW"
    /\ Len(selectedEras) > 0
    /\ capturedImage # Null
    /\ state' = "PROCESSING"
    /\ error' = Null
    /\ generatedResults' = <<>>
    /\ activeIndex' = 0
    /\ activeFilter' = "none"
    /\ pc' = "journey"
    /\ runEras' = selectedEras
    /\ runResults' = <<>>
    /\ pending' = Request("timeTravel", NextItems(selectedEras, 0))
    /\ issued' = SetToSortedSeq(NextItems(selectedEras, 0))
    /\ EraSelectorUnmounted
    /\ UNCHANGED <<capturedImage, analysisText, customPrompt, maskEditor,
                   promptGen>>

\* The remote call of one item has resolved: the loop body after the await
\* and the loop's next iteration up to its await, or the catch block.
journeyResolved(rq, resp) ==
    /\ settled' = Answered(Settlement("handleStartJourney", "timeTravel",
                                      rq.item, runEras, timeTravel(resp).ok),
                          resp)
    /\ pc = "journey"
    /\ rq \in pending
    /\ rq.fn = "timeTravel"
    /\ LET r == timeTravel(resp)
           i == rq.item
       IN IF r.ok
          THEN LET results == PushResult(runResults, runEras[i], r.value)
                   next == NextItems(runEras, i)
               IN /\ generatedResults' = Snapshot(results)
                  /\ error' = error
                  /\ IF next # {}
                     THEN /\ runResults' = results
                          /\ pending' = (pending \ {rq})
                                          \cup Request("timeTravel", next)
                          /\ issued' = issued \o SetToSortedSeq(next)
                          /\ UNCHANGED <<state, pc, runEras>>
                     ELSE /\ state' = "RESULT"
                          /\ EndRun
          ELSE LET next == AfterFailure(runEras, i)
               IN /\ error' = CatchError(r.value)
                  /\ generatedResults' = generatedResults
                  /\ IF next # {}
                     THEN /\ pending' = (pending \ {rq})
                                          \cup Request("timeTravel", next)
                          /\ issued' = issued \o SetToSortedSeq(next)
                          /\ UNCHANGED <<state, pc, runEras, runResults>>
                     ELSE /\ state' = CatchState(runResults)
                          /\ EndRun
    /\ UNCHANGED <<capturedImage, activeIndex, analysisText, customPrompt,
                   activeFilter, selectedEras, maskEditor, promptGen>>

\* --------------------------------------------------------- custom edit
\* onClick={() => customPrompt && onCustom(customPrompt)}, disabled={!customPrompt}
handleCustomEdit ==
    /\ UserAction
    /\ state = "PREVIEW"
    /\ customPrompt # ""
    /\ capturedImage # Null
    /\ state' = "PROCESSING"
    /\ error' = Null
    /\ generatedResults' = <<>>
    /\ activeIndex' = 0
    /\ activeFilter' = "none"
    /\ pc' = "custom"
    /\ pending' = Request("customEdit", {1})
    /\ issued' = <<1>>
    /\ EraSelectorUnmounted
    /\ UNCHANGED <<capturedImage, analysisText, customPrompt, maskEditor,
                   runEras, runResults, promptGen>>

customResolved(resp) ==
    /\ settled' = Answered(Settlement("handleCustomEdit", "customEdit",
                                      1, <<>>, customEdit(resp).ok),
                          resp)
    /\ pc = "custom"
    /\ pending = Request("customEdit", {1})
    /\ LET r == customEdit(resp)
       IN IF r.ok
          THEN /\ generatedResults' =
                     <<[era |-> "Custom Reality", imageUrl |-> r.value]>>
               /\ state' = "RESULT"
               /\ error' = error
          ELSE /\ error' = OrElse(r.value, "Custom edit failed")
               /\ state' = "PREVIEW"
               /\ generatedResults' = generatedResults
    /\ EndRun
    /\ UNCHANGED <<capturedImage, activeIndex, analysisText, customPrompt,
                   activeFilter, selectedEras, maskEditor, promptGen>>

\* ---------------------------------------------------------- mask editor
handleStartMagicEdit ==
    /\ UserAction
    /\ state = "PREVIEW"
    /\ state' = "MASKING"
    /\ EraSelectorUnmounted
    /\ MaskEditorFresh
    /\ UNCHANGED <<session, run, promptGen>>

\* MaskEditor onCancel
cancelMask ==
    /\ UserAction
    /\ state = "MASKING"
    /\ state' = "PREVIEW"
    /\ MaskEditorFresh
    /\ UNCHANGED <<session, selectedEras, run, promptGen>>

\* draw() reads the isDrawing of the render in which the handler was
\* created; it returns early when that is false.
draw ==
    /\ UserAction
    /\ state = "MASKING"
    /\ isDrawing
    /\ hasDrawn' = TRUE
    /\ UNCHANGED <<state, session, selectedEras, isDrawing, prompt, run,
                   promptGen>>

\* startDrawing: setIsDrawing(true); draw(e) with the isDrawing of the
\* current render.
startDrawing ==
    /\ UserAction
    /\ state = "MASKING"
    /\ isDrawing' = TRUE
    /\ hasDrawn' = IF isDrawing THEN TRUE ELSE hasDrawn
    /\ UNCHANGED <<state, session, selectedEras, prompt, run, promptGen>>

stopDrawing ==
    /\ UserAction
    /\ state = "MASKING"
    /\ isDrawing' = FALSE
    /\ UNCHANGED <<state, session, selectedEras, hasDrawn, prompt, run,
                   promptGen>>

\* Clear button, disabled={!hasDrawn}
handleClear ==
    /\ UserAction
    /\ state = "MASKING"
    /\ hasDrawn
    /\ hasDrawn' = FALSE
    /\ UNCHANGED <<state, session, selectedEras, isDrawing, prompt, run,
                   promptGen>>

setPrompt(text) ==
    /\ UserAction
    /\ state = "MASKING"
    /\ prompt' = text
    /\ UNCHANGED <<state, session, selectedEras, isDrawing, hasDrawn, run,
                   promptGen>>

\* handleMagicEditProcess, called by MaskEditor's handleSubmit through
\* onConfirm once the confirm button's gate is open.
handleMagicEditProcess ==
    /\ UserAction
    /\ capturedImage # Null
    /\ state' = "PROCESSING"
    /\ error' = Null
    /\ generatedResults' = <<>>
    /\ activeIndex' = 0
    /\ activeFilter' = "none"
    /\ pc' = "magic"
    /\ pending' = Request("magicEdit", {1})
    /\ issued' = <<1>>
    /\ MaskEditorFresh
    /\ UNCHANGED <<capturedImage, analysisText, customPrompt, selectedEras,
                   runEras, runResults, promptGen>>

\* Mutant of ConfirmEnabled: the button is never disabled, what is left is
\* handleSubmit's own if (!prompt.trim()) return.
ConfirmEnabledByPromptOnly == ~IsBlank(prompt)

\* Confirm button, disabled={!hasDrawn || !prompt.trim()}
ConfirmEnabled == hasDrawn /\ ~IsBlank(prompt)

\* handleSubmit behind the enabled confirm button, when the App holds a
\* source image.
handleSubmit ==
    /\ state = "MASKING"
    /\ ConfirmEnabled
    /\ handleMagicEditProcess

magicResolved(resp) ==
    /\ settled' = Answered(Settlement("handleMagicEditProcess", "magicEdit",
                                      1, <<>>, magicEdit(resp).ok),
                          resp)
    /\ pc = "magic"
    /\ pending = Request("magicEdit", {1})
    /\ LET r == magicEdit(resp)
       IN IF r.ok
          THEN /\ generatedResults' =
                     <<[era |-> "Magic Edit", imageUrl |-> r.value]>>
               /\ state' = "RESULT"
               /\ error' = error
          ELSE /\ error' = OrElse(r.value, "Magic edit failed")
               /\ state' = "PREVIEW"
               /\ generatedResults' = generatedResults
    /\ EndRun
    /\ UNCHANGED <<capturedImage, activeIndex, analysisText, customPrompt,
                   activeFilter, selectedEras, maskEditor, promptGen>>

\* ------------------------------------------------------- specification
\* A step of Spec leaves what Spec does not follow as it is.
Frozen == UNCHANGED <<pixels, handed, configuration>>

Next ==
    \/ startApp /\ Frozen
    \/ \E imageSrc \in CaptureInputs : handleCapture(imageSrc) /\ Frozen
    \/ cancelCapture /\ Frozen
    \/ reset /\ Frozen
    \/ backToPreview /\ Frozen
    \/ \E f \in FilterValues : setActiveFilter(f) /\ Frozen
    \/ \E idx \in 0..MaxBatch : setActiveIndex(idx) /\ Frozen
    \/ \E era \in Era : toggleEra(era) /\ Frozen
    \/ \E text \in TypedPrompts : setCustomPrompt(text) /\ Frozen
    \/ handleAnalyze /\ Frozen
    \/ \E resp \in TextResponses : analyzeResolved(resp) /\ Frozen
    \/ handleGeneratePrompt /\ Frozen
    \/ \E resp \in TextResponses : promptResolved(resp) /\ Frozen
    \/ handleRestore /\ Frozen
    \/ \E resp \in TextResponses : restoreAnalyzed(resp) /\ Frozen
    \/ \E resp \in ImageResponses : restoreEdited(resp) /\ Frozen
    \/ handleStartJourney /\ Frozen
    \/ \E rq \in pending, resp \in ImageResponses : journeyResolved(rq, resp) /\ Frozen
    \/ handleCustomEdit /\ Frozen
    \/ \E resp \in ImageResponses : customResolved(resp) /\ Frozen
    \/ handleStartMagicEdit /\ Frozen
    \/ cancelMask /\ Frozen
    \/ startDrawing /\ Frozen
    \/ draw /\ Frozen
    \/ stopDrawing /\ Frozen
    \/ handleClear /\ Frozen
    \/ \E text \in MaskPrompts : setPrompt(text) /\ Frozen
    \/ handleSubmit /\ Frozen
    \/ \E resp \in ImageResponses : magicResolved(resp) /\ Frozen

Spec == Init /\ [][Next]_vars

\* ================================================================ claims
\* The step just taken ended a run of one of the three batch-producing
\* actions: the handler resumed from a transform call and has returned.
BatchEnded ==
    /\ settled.by \in {"handleStartJourney", "handleCustomEdit",
                       "handleMagicEditProcess"}
    /\ pc = "idle"

\* The step just taken ended a journey of settled.n eras.
JourneyEnded == settled.by = "handleStartJourney" /\ pc = "idle"

\* The number k of items of the ended run whose remote call succeeded: the
\* call of item settled.item is the one that resolved last.
Succeeded == IF settled.ok THEN settled.item ELSE settled.item - 1

\* C1: terminal-success rule.  When a run started by startBatch, customEdit
\* or mask confirm completes, the phase is RESULT if and only if at least one
\* result was produced; otherwise the phase is PREVIEW and lastError is set.
C1_TerminalSuccess ==
    BatchEnded =>
        /\ state = "RESULT" <=> Succeeded >= 1
        /\ state = "RESULT" <=> Len(generatedResults) >= 1
        /\ state # "RESULT" => state = "PREVIEW" /\ error # Null

\* C1 witness: a mask edit failed and the session is back in PREVIEW with
\* the error set and no result.
C1_Witness ==
    /\ BatchEnded
    /\ settled.by = "handleMagicEditProcess"
    /\ ~settled.ok
    /\ state = "PREVIEW"
    /\ error = "Failed to edit image. Please try again."
    /\ generatedResults = <<>>

\* The labels of the first k request items of a journey over eras.
Labels(eras, k) == [i \in 1..k |-> eras[i]]

\* The labels of a result sequence.
ResultLabels(results) == [i \in 1..Len(results) |-> results[i].era]

C4_Sequential ==
    /\ Cardinality(pending) <= 1
    /\ pc = "journey" =>
           /\ issued = [i \in 1..Len(issued) |-> i]
           /\ \A rq \in pending : rq.item = Len(issued)

\* C4 witness: the request of the second item is outstanding, the first has
\* resolved.
C4_Witness ==
    /\ pc = "journey"
    /\ pending = Request("timeTravel", {2})
    /\ issued = <<1, 2>>

C6_NoRetryAbort ==
    /\ \A i, j \in 1..Len(issued) : issued[i] = issued[j] => i = j
    /\ (settled.by = "handleStartJourney" /\ ~settled.ok) =>
           /\ pending = {}
           /\ pc = "idle"

\* C6 witness: the first item of a journey of two failed; the second was
\* never requested.
C6_Witness ==
    /\ settled.by = "handleStartJourney"
    /\ ~settled.ok
    /\ settled.item = 1
    /\ settled.n = 2
    /\ pending = {}
    /\ pc = "idle"

\* C7: every transition into PROCESSING or RESTORE leaves lastError empty
\* and results empty at the moment the phase is entered.
C7_ClearedOnEntry ==
    [][(state' \in {"PROCESSING", "RESTORE"}
          /\ state \notin {"PROCESSING", "RESTORE"})
         => (error' = Null /\ generatedResults' = <<>>)]_vars

\* C8: reset sets the phase to HOME and clears sourceImage, results,
\* analysis, lastError, filter and instruction.
C8_ResetClearsAll ==
    [][reset =>
         /\ state' = "HOME"
         /\ capturedImage' = Null
         /\ generatedResults' = <<>>
         /\ analysisText' = Null
         /\ error' = Null
         /\ activeFilter' = "none"
         /\ customPrompt' = ""]_vars

\* C9: in every reachable state 0 <= activeResultIndex < max(1, len(results)).
C9_ActiveIndexInRange ==
    /\ 0 <= activeIndex
    /\ activeIndex < (IF Len(generatedResults) > 1
                      THEN Len(generatedResults) ELSE 1)

\* C10: lastError is cleared at the start of every user action: once startMask,
\* mask cancel, backToPreview, reset, start, capture, analyze, restore,
\* startBatch, customEdit or mask confirm has begun, lastError is empty.
C10_ErrorClearedByAction ==
    [][(\/ handleStartMagicEdit
        \/ cancelMask
        \/ backToPreview
        \/ reset
        \/ startApp
        \/ \E imageSrc \in CaptureInputs : handleCapture(imageSrc)
        \/ handleAnalyze
        \/ handleRestore
        \/ handleStartJourney
        \/ handleCustomEdit
        \/ handleSubmit)
         => error' = Null]_vars

\* ======================================================= mask canvas
\* SpecMask: the session around the mask editor, with the pixels of the
\* editor's canvas.  Each handler of MaskEditor.tsx is its step on the
\* component's state, defined above, together with its calls on the canvas.

\* The canvas element of a MaskEditor that mounts.
NewCanvas ==
    /\ canvas' = Blank
    /\ pen' = 0
    /\ loaded' = FALSE
    /\ strokes' = 0
    /\ inked' = {}
    /\ wiped' = {}

\* A step that is none of the mask editor's canvas: no confirm click, and no
\* pixel changes while the editor stays mounted.  The canvas of an editor
\* that has unmounted is gone.
Aside ==
    /\ handed' = NoClick
    /\ IF state' = "MASKING" THEN UNCHANGED pixels ELSE NewCanvas
    /\ UNCHANGED configuration

\* handleStartMagicEdit and the mount of the MaskEditor it renders.
mountMaskEditor ==
    /\ handleStartMagicEdit
    /\ NewCanvas
    /\ handed' = NoClick
    /\ UNCHANGED configuration

\* img.onload of the mount effect: assigning canvas.width and canvas.height
\* resets the bitmap and the context, the current path included.  It runs
\* once, some time after the mount, when there is an image to load.
imgOnload ==
    /\ UserAction
    /\ state = "MASKING"
    /\ capturedImage # Null
    /\ ~loaded
    /\ loaded' = TRUE
    /\ canvas' = Blank
    /\ pen' = 0
    /\ inked' = {}
    /\ handed' = NoClick
    /\ UNCHANGED <<state, session, selectedEras, maskEditor, run, promptGen,
                   strokes, wiped, configuration>>

\* The positions the stroke of a drawing step at x covers.  lineTo on an
\* empty path only sets the point and stroke() then has no line to draw; a
\* line from a point to itself is drawn as a dot or not at all, as the
\* browser decides (dot).
Segment(x, dot) ==
    IF pen = 0 THEN {}
    ELSE IF pen = x THEN (IF dot THEN {x} ELSE {})
    ELSE IF pen < x THEN pen..x ELSE x..pen

\* draw past its guard: lineTo(x, y); stroke(); beginPath(); moveTo(x, y),
\* the ink going down with opacity alpha.
Stroke(x, alpha, dot) ==
    /\ strokes < MaxDraws
    /\ canvas' = [i \in 1..CanvasPixels |->
                    IF i \in Segment(x, dot) THEN Over(alpha, canvas[i])
                    ELSE canvas[i]]
    /\ inked' = inked \cup Segment(x, dot)
    /\ pen' = x
    /\ strokes' = strokes + 1
    /\ UNCHANGED <<loaded, wiped>>

\* onMouseMove / onTouchMove at position x
drawAt(x, alpha, dot) ==
    /\ draw
    /\ Stroke(x, alpha, dot)
    /\ handed' = NoClick
    /\ UNCHANGED configuration

\* onMouseDown / onTouchStart at position x: the draw(e) it calls passes
\* its guard only when the render it closes over had isDrawing set.
startDrawingAt(x, alpha, dot) ==
    /\ startDrawing
    /\ IF isDrawing THEN Stroke(x, alpha, dot) ELSE UNCHANGED pixels
    /\ handed' = NoClick
    /\ UNCHANGED configuration

\* onMouseUp / onMouseLeave / onTouchEnd: ctx.beginPath() empties the path.
stopDrawingPath ==
    /\ stopDrawing
    /\ pen' = 0
    /\ handed' = NoClick
    /\ UNCHANGED <<canvas, loaded, strokes, inked, wiped, configuration>>

\* Mutant of clearRect: handleClear resets the gate and leaves the canvas.
clearRectMissing ==
    /\ UNCHANGED canvas
    /\ wiped' = wiped \cup inked
    /\ inked' = {}
    /\ strokes' = 0
    /\ UNCHANGED <<pen, loaded>>

\* ctx.clearRect(0, 0, canvas.width, canvas.height); the path is kept.
clearRect ==
    /\ canvas' = Blank
    /\ wiped' = wiped \cup inked
    /\ inked' = {}
    /\ strokes' = 0
    /\ UNCHANGED <<pen, loaded>>

\* The Clear button
handleClearCanvas ==
    /\ handleClear
    /\ clearRect
    /\ handed' = NoClick
    /\ UNCHANGED configuration

\* A click on the confirm button.  Disabled, it runs nothing.  Enabled, it
\* runs handleSubmit, which builds the mask and calls onConfirm, that is
\* handleMagicEditProcess, which returns at once when the App holds no
\* source image.
confirmClick ==
    /\ state = "MASKING"
    /\ UNCHANGED <<pixels, configuration>>
    /\ \/ /\ ConfirmEnabled
          /\ capturedImage # Null
          /\ handed' = Click(<<[mask |-> MaskOf(canvas), prompt |-> prompt]>>)
          /\ handleMagicEditProcess
       \/ /\ ConfirmEnabled
          /\ capturedImage = Null
          /\ handed' = Click(<<[mask |-> MaskOf(canvas), prompt |-> prompt]>>)
          /\ UserAction
          /\ UNCHANGED <<state, session, selectedEras, maskEditor, run,
                         promptGen>>
       \/ /\ ~ConfirmEnabled
          /\ handed' = Click(<<>>)
          /\ UserAction
          /\ UNCHANGED <<state, session, selectedEras, maskEditor, run,
                         promptGen>>

NextMask ==
    \/ startApp /\ Aside
    \/ \E imageSrc \in CaptureInputs : handleCapture(imageSrc) /\ Aside
    \/ reset /\ Aside
    \/ backToPreview /\ Aside
    \/ mountMaskEditor
    \/ imgOnload
    \/ cancelMask /\ Aside
    \/ \E x \in 1..CanvasPixels, alpha \in InkAlpha, dot \in BOOLEAN :
           startDrawingAt(x, alpha, dot)
    \/ \E x \in 1..CanvasPixels, alpha \in InkAlpha, dot \in BOOLEAN :
           drawAt(x, alpha, dot)
    \/ stopDrawingPath
    \/ handleClearCanvas
    \/ \E text \in MaskPrompts : setPrompt(text) /\ Aside
    \/ confirmClick
    \/ \E resp \in ImageResponses : magicResolved(resp) /\ Aside

SpecMask == Init /\ [][NextMask]_vars

\* ===================================================== configuration
\* SpecConfig: the session around a custom edit, with the configuration, the
\* store it is saved to and read from, and the text of the request.

\* Style buttons of the settings panel, then the save-settings effect
setSelectedStyle(style) ==
    /\ UserAction
    /\ state = "PREVIEW"
    /\ selectedStyle' = style
    /\ storage' = Saved(style, selectedResolution, detailLevel)
    /\ UNCHANGED <<state, session, selectedEras, maskEditor, run, promptGen,
                   pixels, handed, selectedResolution, detailLevel, request>>

\* Resolution buttons of the settings panel, then the save-settings effect
setSelectedResolution(resolution) ==
    /\ UserAction
    /\ state = "PREVIEW"
    /\ selectedResolution' = resolution
    /\ storage' = Saved(selectedStyle, resolution, detailLevel)
    /\ UNCHANGED <<state, session, selectedEras, maskEditor, run, promptGen,
                   pixels, handed, selectedStyle, detailLevel, request>>

\* The detail slider, rendered when the resolution is not STANDARD, then the
\* save-settings effect
setDetailLevel(level) ==
    /\ UserAction
    /\ state = "PREVIEW"
    /\ selectedResolution # "Standard"
    /\ detailLevel' = level
    /\ storage' = Saved(selectedStyle, selectedResolution, level)
    /\ UNCHANGED <<state, session, selectedEras, maskEditor, run, promptGen,
                   pixels, handed, selectedStyle, selectedResolution,
                   request>>

\* handleCustomEdit with the request customEdit builds from the
\* configuration
handleCustomEditRequest ==
    /\ handleCustomEdit
    /\ request' = fullPrompt(customPrompt, selectedStyle, selectedResolution,
                             detailLevel)
    /\ UNCHANGED <<pixels, handed, selectedStyle, selectedResolution,
                   detailLevel, storage>>

\* The continuation of handleCustomEdit: the request is no longer in flight.
customResolvedRequest(resp) ==
    /\ customResolved(resp)
    /\ request' = NoRequest
    /\ UNCHANGED <<pixels, handed, selectedStyle, selectedResolution,
                   detailLevel, storage>>

\* The page is loaded again: App mounts over the store as it is.
reload ==
    /\ state' = "HOME"
    /\ capturedImage' = Null
    /\ generatedResults' = <<>>
    /\ activeIndex' = 0
    /\ analysisText' = Null
    /\ error' = Null
    /\ customPrompt' = ""
    /\ isGeneratingPrompt' = FALSE
    /\ activeFilter' = "none"
    /\ selectedEras' = <<>>
    /\ MaskEditorFresh
    /\ EndRun
    /\ promptPending' = FALSE
    /\ settled' = NoSettlement
    /\ NewCanvas
    /\ handed' = NoClick
    /\ selectedStyle' = OrElse(storage.style, "Photorealistic")
    /\ selectedResolution' = OrElse(storage.resolution, "Standard")
    /\ detailLevel' = InitialDetail(storage.detail)
    /\ storage' = Saved(OrElse(storage.style, "Photorealistic"),
                        OrElse(storage.resolution, "Standard"),
                        InitialDetail(storage.detail))
    /\ request' = NoRequest

InitConfig == \E store \in PriorStores : Constructed(store)

NextConfig ==
    \/ startApp /\ Frozen
    \/ \E imageSrc \in CaptureInputs : handleCapture(imageSrc) /\ Frozen
    \/ reset /\ Frozen
    \/ backToPreview /\ Frozen
    \/ \E text \in TypedPrompts : setCustomPrompt(text) /\ Frozen
    \/ \E style \in ImageStyle : setSelectedStyle(style)
    \/ \E resolution \in Resolution : setSelectedResolution(resolution)
    \/ \E level \in 0..MaxDetail : setDetailLevel(level)
    \/ handleCustomEditRequest
    \/ \E resp \in ImageResponses : customResolvedRequest(resp)
    \/ reload

SpecConfig == InitConfig /\ [][NextConfig]_vars

\* C11: in the state right after a capture the phase is PREVIEW, the source
\* image is the captured one, and results, analysis, error, filter and
\* instruction hold nothing from an earlier use of the session.
C11_CaptureClears ==
    settled.act = "handleCapture" =>
        /\ state = "PREVIEW"
        /\ capturedImage = settled.arg
        /\ generatedResults = <<>>
        /\ analysisText = Null
        /\ error = Null
        /\ activeFilter = "none"
        /\ customPrompt = ""

\* A capture of an image into a session that still held an error or an
\* instruction.
C11_Witness ==
    /\ settled.act = "handleCapture"
    /\ settled.arg = "imgA"
    /\ settled.stale
    /\ state = "PREVIEW"
    /\ error = Null
    /\ customPrompt = ""

\* C12: an analysis runs in PROCESSING and its completion always lands in
\* PREVIEW, never in RESULT.  When the remote answered, the analysis is set and
\* the error is empty; when the remote failed, the error is set and the
\* analysis is the one the session had before.  The source image is the same
\* before and after.
C12_AnalyzeOutcome ==
    /\ [](pc = "analyze" => state = "PROCESSING")
    /\ [](settled.by = "handleAnalyze" =>
            /\ state = "PREVIEW"
            /\ settled.saw = "error" => error # Null
            /\ settled.saw # "error" => analysisText # Null /\ error = Null)
    /\ [][settled'.by = "handleAnalyze" =>
            /\ capturedImage' = capturedImage
            /\ settled'.saw = "error" => analysisText' = analysisText
         ]_vars

\* A failed analysis of a session that already held an analysis.
C12_Witness ==
    /\ settled.by = "handleAnalyze"
    /\ settled.saw = "error"
    /\ state = "PREVIEW"
    /\ error # Null
    /\ analysisText # Null
    /\ capturedImage = "imgA"

\* C13: a restore is the damage analysis followed by the transform.  The
\* transform is requested only by the step in which the damage analysis
\* succeeded; a failed analysis requests nothing.  When both succeed the phase
\* is RESULT with exactly one result; when either fails no result is stored,
\* the error is set and the phase is PREVIEW.
C13_RestoreSteps ==
    /\ [](pc = "restoreAnalyze" =>
            /\ state = "RESTORE"
            /\ pending = Request("analyzeImage", {0})
            /\ issued = <<>>)
    /\ [](pc = "restoreEdit" =>
            /\ state = "RESTORE"
            /\ pending = Request("customEdit", {1}))
    /\ [][(pc # "restoreEdit" /\ pc' = "restoreEdit") =>
            /\ pc = "restoreAnalyze"
            /\ settled'.fn = "analyzeImage"
            /\ settled'.saw # "error"
         ]_vars
    /\ [](settled.by = "handleRestore" /\ settled.fn = "analyzeImage"
          /\ settled.saw = "error" =>
            /\ pc = "idle" /\ pending = {}
            /\ state = "PREVIEW"
            /\ error # Null
            /\ generatedResults = <<>>)
    /\ [](settled.by = "handleRestore" /\ settled.fn = "customEdit" =>
            IF settled.saw = "image"
            THEN /\ state = "RESULT"
                 /\ Len(generatedResults) = 1
                 /\ generatedResults[1].era = "Restored Photo"
                 /\ error = Null
            ELSE /\ state = "PREVIEW"
                 /\ error # Null
                 /\ generatedResults = <<>>)

\* A restore whose analysis and transform both succeeded.
C13_Witness ==
    /\ settled.by = "handleRestore"
    /\ settled.fn = "customEdit"
    /\ settled.saw = "image"
    /\ state = "RESULT"
    /\ Len(generatedResults) = 1

\* The step just taken started a prompt generation or handled its outcome.
PromptStep ==
    \/ ~promptPending /\ promptPending'
    \/ settled'.by = "handleGeneratePrompt"

\* C19: neither the start of a prompt generation nor its outcome changes the
\* phase, the error, the results or the source image; a failed generation
\* leaves the instruction as it was; the outcome, success or failure, clears
\* the in-progress flag.
C19_PromptSilent ==
    [][PromptStep =>
        /\ state' = state
        /\ error' = error
        /\ generatedResults' = generatedResults
        /\ capturedImage' = capturedImage
        /\ settled'.by = "handleGeneratePrompt" =>
               /\ ~isGeneratingPrompt'
               /\ settled'.saw = "error" => customPrompt' = customPrompt
    ]_vars

\* A failed prompt generation in a session whose instruction was typed.
C19_Witness ==
    /\ settled.by = "handleGeneratePrompt"
    /\ settled.saw = "error"
    /\ ~isGeneratingPrompt
    /\ customPrompt = "make me a pirate"
    /\ state = "PREVIEW"

\* The remote answered a transform request without an image.
NoImagePayload ==
    /\ settled.fn \in {"timeTravel", "customEdit", "magicEdit"}
    /\ settled.saw \in {"noparts", "noimage"}

\* C20: a response without an image makes the plain and the masked transform
\* fail alike, the handler that awaited it reports the error, and no stored
\* result has the empty image.
C20_NoImageIsFailure ==
    /\ \A resp \in ImageResponses :
           Saw(resp) # "image" =>
               /\ ~processImage(resp).ok
               /\ ~timeTravel(resp).ok
               /\ ~customEdit(resp).ok
               /\ ~magicEdit(resp).ok
    /\ NoImagePayload => ~settled.ok /\ error # Null
    /\ \A i \in 1..Len(generatedResults) : generatedResults[i].imageUrl # ""

\* A custom edit answered with parts that hold no image.
C20_Witness ==
    /\ settled.by = "handleCustomEdit"
    /\ settled.saw = "noimage"
    /\ ~settled.ok
    /\ error # Null
    /\ state = "PREVIEW"

\* Every pixel of the buffer is opaque black or opaque white.
TwoValued(buf) == \A i \in DOMAIN buf : buf[i] \in {Black, White}

\* C14: a click on the confirm button calls onConfirm exactly once, with the
\* binarized mask of the canvas and the instruction, when a drawing step has
\* been made since the last clear and the instruction is not blank; the App
\* that holds a source image then starts the mask edit.  Otherwise the click
\* calls nothing and the phase stays MASKING.
C14_SubmissionGated ==
    [][handed'.clicked =>
        IF strokes > 0 /\ ~IsBlank(prompt)
        THEN /\ Len(handed'.calls) = 1
             /\ handed'.calls[1].prompt = prompt
             /\ handed'.calls[1].mask = MaskOf(canvas)
             /\ TwoValued(handed'.calls[1].mask)
             /\ capturedImage # Null =>
                    /\ state' = "PROCESSING"
                    /\ pending' = Request("magicEdit", {1})
        ELSE /\ handed'.calls = <<>>
             /\ state' = "MASKING"
             /\ pending' = pending
    ]_vars

\* A confirm click that handed a mask and an instruction over.
C14_Witness ==
    /\ handed.clicked
    /\ Len(handed.calls) = 1
    /\ handed.calls[1].prompt = "a hat"
    /\ state = "PROCESSING"
    /\ pc = "magic"

\* C15: whatever opacity the ink of a pixel has accumulated, the pixel of the
\* mask is opaque white when a colour channel of the stroke layer is non-zero
\* there and opaque black when none is; every pixel of a mask handed over is
\* one of the two, white exactly at the positions that took ink.
C15_MaskTwoValued ==
    /\ [](\A alpha \in 0..255 :
            LET layer == StrokeLayer(alpha)
            IN Threshold(DrawImage(layer, Black)) =
                   IF layer.r > 0 \/ layer.g > 0 \/ layer.b > 0
                   THEN White ELSE Black)
    /\ [](\A k \in 1..Len(handed.calls) : TwoValued(handed.calls[k].mask))
    /\ [][\A k \in 1..Len(handed'.calls) : \A i \in 1..CanvasPixels :
            handed'.calls[k].mask[i] = White <=> i \in inked]_vars

\* A mask handed over whose first pixel took only the faint ink of a brush
\* edge and whose second pixel took none.
C15_Witness ==
    /\ Len(handed.calls) = 1
    /\ canvas[1] = 1
    /\ canvas[2] = 0
    /\ handed.calls[1].mask[1] = White
    /\ handed.calls[1].mask[2] = Black

\* C16: the binarization loop returns every buffer of opaque black and opaque
\* white pixels as it is, the masks handed over among them.
C16_BinarizeIdempotent ==
    /\ \A buf \in [1..CanvasPixels -> {Black, White}] : Binarize(buf) = buf
    /\ \A k \in 1..Len(handed.calls) :
           Binarize(handed.calls[k].mask) = handed.calls[k].mask

\* A mask handed over that has a white and a black pixel.
C16_Witness ==
    /\ Len(handed.calls) = 1
    /\ \E i, j \in 1..CanvasPixels :
           /\ handed.calls[1].mask[i] = White
           /\ handed.calls[1].mask[j] = Black
    /\ Binarize(handed.calls[1].mask) = handed.calls[1].mask

\* C17: the step that resets the gate inside the editor leaves the canvas
\* blank and the source image and the instruction as they were; a mask
\* handed over is white only where ink went down after the last clear.
C17_ClearDiscardsInk ==
    /\ [][(state = "MASKING" /\ state' = "MASKING" /\ hasDrawn /\ ~hasDrawn')
            => /\ canvas' = Blank
               /\ capturedImage' = capturedImage
               /\ prompt' = prompt]_vars
    /\ [][\A k \in 1..Len(handed'.calls) : \A i \in 1..CanvasPixels :
            handed'.calls[k].mask[i] = White => i \in inked]_vars

\* Ink, a clear, ink at another position, and the mask handed over: black
\* where the cleared ink was, white under the later ink.
C17_Witness ==
    /\ Len(handed.calls) = 1
    /\ \E i \in wiped \ inked : handed.calls[1].mask[i] = Black
    /\ \E j \in inked : handed.calls[1].mask[j] = White

\* The clause of the quality text a resolution tier stands for, the standard
\* clause for anything that is no tier.
TierClause(tier) ==
    CASE tier = "High Quality" -> "High quality, detailed, sharp focus."
      [] tier = "4K Ultra" ->
             "4K resolution, ultra sharp, highly detailed, masterful quality."
      [] OTHER -> "Standard resolution."

SoftClause == "soft edges, smooth textures, dreamy quality"
BalancedClause == "balanced details"
HighFidelityClause ==
    "intricate micro-details, hyper-realistic textures, extremely sharp edges, high fidelity"

\* C18: for every tier, recognised or not, and every detail level 0..100 the
\* quality text is the tier's clause followed by one detail clause: the soft
\* one iff the level is below 30, the high-fidelity one iff it is above 70,
\* the balanced one iff it is from 30 to 70; the request in flight carries
\* that text for the configuration of the session.
C18_QualityText ==
    /\ \A tier \in Resolution \cup {"bogus"}, d \in 0..MaxDetail :
           LET q == getResolutionPrompt(tier, d)
           IN /\ Len(q) = 4
              /\ q[1] = TierClause(tier)
              /\ q[3] \in {SoftClause, BalancedClause, HighFidelityClause}
              /\ q[3] = SoftClause <=> d < 30
              /\ q[3] = HighFidelityClause <=> d > 70
              /\ q[3] = BalancedClause <=> (30 <= d /\ d <= 70)
    /\ request # NoRequest =>
           /\ request[5] = TierClause(selectedResolution)
           /\ request[7] = IF detailLevel < 30 THEN SoftClause
                           ELSE IF detailLevel > 70 THEN HighFidelityClause
                           ELSE BalancedClause

\* A request in flight built for a tier the store held that is no tier, at
\* detail level 30.
C18_Witness ==
    /\ request # NoRequest
    /\ selectedResolution = "bogus"
    /\ detailLevel = 30
    /\ request[5] = "Standard resolution."
    /\ request[7] = BalancedClause

\* C21: the source image is present in every state whose phase is PREVIEW,
\* MASKING, PROCESSING, RESTORE or RESULT; it changes only in a capture or a
\* reset, and no step of a run changes it.
C21_SourcePresent ==
    /\ [](state \in {"PREVIEW", "MASKING", "PROCESSING", "RESTORE", "RESULT"}
            => capturedImage # Null)
    /\ [][capturedImage' # capturedImage =>
            \/ state = "CAPTURE" /\ state' = "PREVIEW"
            \/ state' = "HOME"]_vars
    /\ [][(pc # "idle" \/ pc' # "idle") => capturedImage' = capturedImage]_vars

\* C22: the step from RESULT to PREVIEW changes the phase only: results,
\* active index, source image and configuration are what they were; the stored
\* results change only in a step of a run, in a capture or in a reset.
C22_BackKeepsResults ==
    /\ [][(state = "RESULT" /\ state' = "PREVIEW") =>
            /\ generatedResults' = generatedResults
            /\ activeIndex' = activeIndex
            /\ capturedImage' = capturedImage
            /\ selectedStyle' = selectedStyle
            /\ selectedResolution' = selectedResolution
            /\ detailLevel' = detailLevel
            /\ storage' = storage
       ]_vars
    /\ [][generatedResults' # generatedResults =>
            \/ pc # "idle" \/ pc' # "idle"
            \/ state' = "HOME"
            \/ state = "CAPTURE" /\ state' = "PREVIEW"
       ]_vars

\* Back in PREVIEW from the result view with both results of the last run
\* stored and the second one active.
C22_Witness ==
    /\ state = "PREVIEW"
    /\ settled = NoSettlement
    /\ Len(generatedResults) = 2
    /\ activeIndex = 1
    /\ capturedImage = "imgA"

\* C23: in every state the store holds what the configuration is, and a
\* restart reading the store as it stands would start with the same style,
\* tier and detail level.
C23_RoundTrip ==
    /\ storage = Saved(selectedStyle, selectedResolution, detailLevel)
    /\ OrElse(storage.style, "Photorealistic") = selectedStyle
    /\ OrElse(storage.resolution, "Standard") = selectedResolution
    /\ InitialDetail(storage.detail) = detailLevel

\* C24: a run is in flight exactly while the phase is PROCESSING or RESTORE;
\* a step that enters one of the two phases finds no run in flight and no
\* request outstanding, and leaves the results empty.
C24_RunsNeverOverlap ==
    /\ []((pc # "idle") <=> (state \in {"PROCESSING", "RESTORE"}))
    /\ [][(state \notin {"PROCESSING", "RESTORE"}
             /\ state' \in {"PROCESSING", "RESTORE"})
          => /\ pc = "idle"
             /\ pending = {}
             /\ pc' # "idle"
             /\ generatedResults' = <<>>
       ]_vars

ListedEdges ==
    {<<"HOME", "CAPTURE">>, <<"CAPTURE", "PREVIEW">>,
     <<"PREVIEW", "PROCESSING">>, <<"PREVIEW", "RESTORE">>,
     <<"PREVIEW", "MASKING">>, <<"MASKING", "PREVIEW">>,
     <<"MASKING", "PROCESSING">>, <<"PROCESSING", "PREVIEW">>,
     <<"PROCESSING", "RESULT">>, <<"RESTORE", "PREVIEW">>,
     <<"RESTORE", "RESULT">>, <<"RESULT", "PREVIEW">>}
    \cup {<<from, "HOME">> : from \in AppState}

\* C26: the phase changes only along the listed edges, each edge is taken by
\* the actions listed for it, and an action offered in a phase always has its
\* listed successor: analyze, restore, startBatch, customEdit and startMask
\* leave PREVIEW, an enabled confirm leaves MASKING.
C26_PhaseEdges ==
    /\ [][state' # state => <<state, state'>> \in ListedEdges]_vars
    /\ [][(state = "PREVIEW" /\ state' = "PROCESSING")
            => (handleAnalyze \/ handleStartJourney \/ handleCustomEdit)]_vars
    /\ [][(state = "PREVIEW" /\ state' = "RESTORE") => handleRestore]_vars
    /\ [][(state = "MASKING" /\ state' = "PROCESSING") => handleSubmit]_vars
    /\ [](state = "PREVIEW" =>
            /\ ENABLED (handleAnalyze /\ Frozen)
            /\ ENABLED (handleRestore /\ Frozen)
            /\ ENABLED (handleStartMagicEdit /\ Frozen))
    /\ []((state = "PREVIEW" /\ selectedEras # <<>>)
            => ENABLED (handleStartJourney /\ Frozen))
    /\ []((state = "PREVIEW" /\ customPrompt # "")
            => ENABLED (handleCustomEdit /\ Frozen))
    /\ []((state = "MASKING" /\ ConfirmEnabled)
            => ENABLED (handleSubmit /\ Frozen))

\* C27: a step taken while no pointer is held adds no ink and does not open
\* the gate, and the gate is open only when a drawing step has put ink on
\* the canvas since the last clear.
C27_InkWhileHeld ==
    /\ [][~isDrawing => (inked' \subseteq inked /\ (hasDrawn' => hasDrawn))]_vars
    /\ [](hasDrawn => inked # {})

C29_NoStaleWrite ==
    [][(settled'.by = "handleGeneratePrompt"
          /\ (capturedImage = Null \/ state \in {"HOME", "CAPTURE"}))
        => customPrompt' = ""]_vars

\* ------------------------------------------------------------ progress
\* The remote call a run is waiting for resolves, with whatever answer.
RunResolved ==
    \/ \E resp \in TextResponses : analyzeResolved(resp) /\ Frozen
    \/ \E resp \in TextResponses : restoreAnalyzed(resp) /\ Frozen
    \/ \E resp \in ImageResponses : restoreEdited(resp) /\ Frozen
    \/ \E rq \in pending, resp \in ImageResponses :
           journeyResolved(rq, resp) /\ Frozen
    \/ \E resp \in ImageResponses : customResolved(resp) /\ Frozen
    \/ \E resp \in ImageResponses : magicResolved(resp) /\ Frozen

\* The actions that lead into, through and out of a run, and the prompt
\* generation that may be in flight beside one.
NextLive ==
    \/ startApp /\ Frozen
    \/ \E imageSrc \in CaptureInputs : handleCapture(imageSrc) /\ Frozen
    \/ cancelCapture /\ Frozen
    \/ reset /\ Frozen
    \/ backToPreview /\ Frozen
    \/ \E era \in Era : toggleEra(era) /\ Frozen
    \/ \E text \in TypedPrompts : setCustomPrompt(text) /\ Frozen
    \/ handleAnalyze /\ Frozen
    \/ handleGeneratePrompt /\ Frozen
    \/ \E resp \in TextResponses : promptResolved(resp) /\ Frozen
    \/ handleRestore /\ Frozen
    \/ handleStartJourney /\ Frozen
    \/ handleCustomEdit /\ Frozen
    \/ handleStartMagicEdit /\ Frozen
    \/ cancelMask /\ Frozen
    \/ startDrawing /\ Frozen
    \/ draw /\ Frozen
    \/ \E text \in MaskPrompts : setPrompt(text) /\ Frozen
    \/ handleSubmit /\ Frozen
    \/ RunResolved

\* The session under the assumption that a call awaited by a run does
\* resolve: the promise settles and the handler's continuation is run.
SpecLive == Init /\ [][NextLive]_vars /\ WF_vars(RunResolved)

\* C30: a session in PROCESSING or RESTORE eventually is in RESULT or
\* PREVIEW; while it is in PROCESSING or RESTORE a remote call is
\* outstanding; a batch of N items issues at most N transform requests.
C30_RunsTerminate ==
    /\ (state \in {"PROCESSING", "RESTORE"}) ~> (state \in {"RESULT", "PREVIEW"})
    /\ [](state \in {"PROCESSING", "RESTORE"} => pending # {})
    /\ [](pc = "journey" => Len(issued) <= Len(runEras))

\* A batch of two items is waiting for its second and last request.
C30_Witness ==
    /\ state = "PROCESSING"
    /\ pc = "journey"
    /\ Len(runEras) = 2
    /\ issued = <<1, 2>>
    /\ pending = Request("timeTravel", {2})

====
